---- MODULE Spec2Model ----
(***************************************************************************)
(* markityper (src/index.mjs): the unified token stream                    *)
(* createUnifiedStream / createUnifiedStreamSync and the helper            *)
(* toClosingTag.                                                           *)
(*                                                                         *)
(* A JavaScript string is a sequence of UTF-16 code units.  A code unit is *)
(* modelled as a TLA+ string: the printable ASCII units are themselves     *)
(* ("#", " ", "\n"), the others are named by their code ("U+0301"); so is  *)
(* the backtick, "U+0060", which a TLA+ string cannot hold.                *)
(* Offsets are 0-based as in the source: At(s, k) is s[k].                 *)
(***************************************************************************)
EXTENDS Integers, Sequences, FiniteSets, TLC

VARIABLES
    src,            \* the source string handed to createUnifiedStream
    opts,           \* the options object handed to createUnifiedStream
    HAS_SEGMENTER,  \* whether the runtime provides Intl.Segmenter
    i,              \* the cursor
    stack,          \* the inline mark stack
    inFence,        \* the fence flag
    out,            \* the tokens yielded so far, in emission order
    opening,        \* the argument of toClosingTag
    closing,        \* what toClosingTag did: its completion
    done,           \* whether the generator has returned (the stream is exhausted)
    tagPc,          \* "idle" before the call of toClosingTag, "returned" after
    src2,           \* a second invocation of createUnifiedStream: its source,
    opts2,          \* its options,
    i2,             \* its cursor,
    stack2,         \* its mark stack,
    inFence2,       \* its fence flag,
    out2,           \* the tokens it has yielded,
    done2           \* and whether it has returned

vars ==
    <<src, opts, HAS_SEGMENTER, i, stack, inFence, out, done, opening, closing, tagPc,
      src2, opts2, i2, stack2, inFence2, out2, done2>>
scanVars == <<src, opts, HAS_SEGMENTER, i, stack, inFence, out, done>>
tagVars == <<opening, closing, tagPc>>
scan2Vars == <<src2, opts2, i2, stack2, inFence2, out2, done2>>

(***************************************************************************)
(* Bounds of the model.                                                    *)
(***************************************************************************)
MaxLen == 2         \* strings over the whole alphabet
MaxInlineLen == 4   \* strings of inline delimiters and tags
MaxLineLen == 4     \* strings of line markers
MaxHashes == 7      \* the longest run of hashes
MaxFenceBody == 2   \* the text between two fence lines
MaxTagLen == 5      \* the arguments of toClosingTag
MaxCodeBody == 3    \* the text after the backtick that opens a code span

(***************************************************************************)
(* JavaScript string primitives.                                           *)
(***************************************************************************)
Undefined == "undefined"

At(s, k) == IF k >= 0 /\ k < Len(s) THEN s[k + 1] ELSE Undefined

Min(a, b) == IF a < b THEN a ELSE b

Slice(s, a, b) == SubSeq(s, a + 1, Min(b, Len(s)))

SliceFrom(s, a) == SubSeq(s, a + 1, Len(s))

StartsWith(s, p, k) ==
    /\ k + Len(p) <= Len(s)
    /\ \A n \in 1..Len(p) : s[k + n] = p[n]

EndsWith(s, p) ==
    /\ Len(p) <= Len(s)
    /\ \A n \in 1..Len(p) : s[Len(s) - Len(p) + n] = p[n]

RECURSIVE IndexOfFrom(_, _, _)
IndexOfFrom(s, c, k) ==
    IF k >= Len(s) THEN -1
    ELSE IF At(s, k) = c THEN k
    ELSE IndexOfFrom(s, c, k + 1)

RECURSIVE Repeat(_, _)
Repeat(c, n) == IF n = 0 THEN <<>> ELSE <<c>> \o Repeat(c, n - 1)

(***************************************************************************)
(* Character classes.                                                      *)
(***************************************************************************)
Backtick == "U+0060"

isWS(c) == c = " " \/ c = "\t" \/ c = "\n" \/ c = "\r"

isDigit(c) == c \in {"0", "1", "2", "3", "4", "5", "6", "7", "8", "9"}

\* Unicode classes of the code units of the model that are not ASCII:
\* U+0301 is a combining mark (Grapheme_Extend), U+0600 is a prepended
\* concatenation mark (Grapheme_Cluster_Break = Prepend), U+D83D and U+DE00
\* are the two halves of a surrogate pair (one code point, U+1F600).
isExtend(c) == c = "U+0301"
isPrepend(c) == c = "U+0600"
isHighSurrogate(c) == c = "U+D83D"
isLowSurrogate(c) == c = "U+DE00"
isControl(c) == c = "\t" \/ c = "\n" \/ c = "\r"

RECURSIVE WSEnd(_, _)
WSEnd(s, j) == IF j < Len(s) /\ isWS(At(s, j)) THEN WSEnd(s, j + 1) ELSE j

\* A slip: a run ends at the first character that differs from its first,
\* so that spaces and newlines are not clumped together.
RECURSIVE SameEnd(_, _, _)
SameEnd(s, c, j) == IF j < Len(s) /\ At(s, j) = c THEN SameEnd(s, c, j + 1) ELSE j

readWSSame(s, k) == SameEnd(s, At(s, k), k) - k

\* A slip: no clumping, one whitespace character at a time.
readWSOne(s, k) == 1

readWS(s, k) == WSEnd(s, k) - k

\* The length in code units of the code point that starts at offset k.
CodePointLen(s, k) ==
    IF isHighSurrogate(At(s, k)) /\ isLowSurrogate(At(s, k + 1)) THEN 2 ELSE 1

RECURSIVE ExtendEnd(_, _)
ExtendEnd(s, j) == IF isExtend(At(s, j)) THEN ExtendEnd(s, j + 1) ELSE j

RECURSIVE PrependEnd(_, _)
PrependEnd(s, j) == IF isPrepend(At(s, j)) THEN PrependEnd(s, j + 1) ELSE j

\* The end of the first grapheme cluster of s as Intl.Segmenter cuts it
\* (UAX #29): CR LF is one cluster, a control stands alone, prepended marks
\* join the code point that follows them unless it is a control (a space
\* is none), and a code point takes the combining marks that follow it.
ClusterEnd(s) ==
    IF At(s, 0) = "\r" /\ At(s, 1) = "\n" THEN 2
    ELSE IF isControl(At(s, 0)) THEN 1
    ELSE LET p == PrependEnd(s, 0)
         IN  IF p >= Len(s) \/ isControl(At(s, p)) THEN p
             ELSE ExtendEnd(s, p + CodePointLen(s, p))

\* [...graphemes(str)][0] for a non-empty str.
graphemes(str, hasSegmenter) ==
    IF hasSegmenter THEN Slice(str, 0, ClusterEnd(str))
    ELSE Slice(str, 0, CodePointLen(str, 0))

(***************************************************************************)
(* matchLineSyntax: the line-level recognizer, called at start-of-line.    *)
(* Its result is a record; Null is the result null, and isFence is FALSE   *)
(* where the source leaves it undefined.                                   *)
(***************************************************************************)
Null == [isNull |-> TRUE, value |-> <<>>, len |-> 0, isFence |-> FALSE]

Match(value, len, isFence) ==
    [isNull |-> FALSE, value |-> value, len |-> len, isFence |-> isFence]

RECURSIVE QuoteEnd(_, _)
QuoteEnd(s, j) == IF At(s, j) = ">" THEN QuoteEnd(s, j + 1) ELSE j

RECURSIVE DigitsEnd(_, _)
DigitsEnd(s, j) == IF isDigit(At(s, j)) THEN DigitsEnd(s, j + 1) ELSE j

RECURSIVE FenceLineEnd(_, _)
FenceLineEnd(s, j) ==
    IF At(s, j) # Undefined /\ At(s, j) # "\n" THEN FenceLineEnd(s, j + 1) ELSE j

\* A slip: a heading needs no space after its hashes.
matchHeadingNoSpace(s, k) ==
    IF StartsWith(s, <<"#">>, k) THEN Match(<<"#", " ">>, 2, FALSE) ELSE Null

\* ATX headings with required trailing space, longest first.
matchHeading(s, k) ==
    IF StartsWith(s, Repeat("#", 6), k) /\ At(s, k + 6) = " "
        THEN Match(Repeat("#", 6) \o <<" ">>, 7, FALSE)
    ELSE IF StartsWith(s, Repeat("#", 5), k) /\ At(s, k + 5) = " "
        THEN Match(Repeat("#", 5) \o <<" ">>, 6, FALSE)
    ELSE IF StartsWith(s, Repeat("#", 4), k) /\ At(s, k + 4) = " "
        THEN Match(Repeat("#", 4) \o <<" ">>, 5, FALSE)
    ELSE IF StartsWith(s, Repeat("#", 3), k) /\ At(s, k + 3) = " "
        THEN Match(Repeat("#", 3) \o <<" ">>, 4, FALSE)
    ELSE IF StartsWith(s, Repeat("#", 2), k) /\ At(s, k + 2) = " "
        THEN Match(Repeat("#", 2) \o <<" ">>, 3, FALSE)
    ELSE IF StartsWith(s, Repeat("#", 1), k) /\ At(s, k + 1) = " "
        THEN Match(Repeat("#", 1) \o <<" ">>, 2, FALSE)
    ELSE Null

\* Block quote: one or more '>' then a space.
matchBlockQuote(s, k) ==
    LET j == QuoteEnd(s, k)
    IN  IF At(s, k) = ">" /\ At(s, j) = " "
            THEN Match(Slice(s, k, j + 1), j - k + 1, FALSE)
        ELSE Null

\* Unordered list markers.
matchUnordered(s, k) ==
    IF (At(s, k) = "-" \/ At(s, k) = "+" \/ At(s, k) = "*") /\ At(s, k + 1) = " "
        THEN Match(Slice(s, k, k + 2), 2, FALSE)
    ELSE Null

\* A slip: the delimiter needs no space after it.
matchOrderedNoSpace(s, k) ==
    LET j == DigitsEnd(s, k)
    IN  IF isDigit(At(s, k)) /\ (At(s, j) = "." \/ At(s, j) = ")")
            THEN Match(Slice(s, k, j + 2), j - k + 2, FALSE)
        ELSE Null

\* Ordered list: digits then '.' or ')' then space.
matchOrdered(s, k) ==
    LET j == DigitsEnd(s, k)
    IN  IF /\ isDigit(At(s, k))
           /\ (At(s, j) = "." \/ At(s, j) = ")")
           /\ At(s, j + 1) = " "
            THEN Match(Slice(s, k, j + 2), j - k + 2, FALSE)
        ELSE Null

\* A slip: the line's newline is left out of the value.
matchFenceNoNewline(s, k) ==
    LET j == FenceLineEnd(s, k + 3)
    IN  IF StartsWith(s, Repeat(Backtick, 3), k)
            THEN Match(Slice(s, k, j), j - k, TRUE)
        ELSE Null

\* Fenced code (open/close): a line starting with three backticks; the
\* value is the whole line, info string and newline included.
matchFence(s, k) ==
    LET j == FenceLineEnd(s, k + 3)
        value == Slice(s, k, j) \o (IF At(s, j) = "\n" THEN <<"\n">> ELSE <<>>)
    IN  IF StartsWith(s, Repeat(Backtick, 3), k)
            THEN Match(value, Len(value), TRUE)
        ELSE Null

matchLineSyntax(s, k) ==
    IF ~matchHeading(s, k).isNull THEN matchHeading(s, k)
    ELSE IF ~matchBlockQuote(s, k).isNull THEN matchBlockQuote(s, k)
    ELSE IF ~matchUnordered(s, k).isNull THEN matchUnordered(s, k)
    ELSE IF ~matchOrdered(s, k).isNull THEN matchOrdered(s, k)
    ELSE matchFence(s, k)

(***************************************************************************)
(* The inline marks.                                                       *)
(***************************************************************************)
STRONG == "strong"
EM == "em"
UNDER == "underline"
CODE == "code"
Mark == {STRONG, EM, UNDER, CODE}

\* A slip: the bottom of the stack is read, stack[0].
Bottom(st) == IF Len(st) = 0 THEN Undefined ELSE st[1]

\* stack[stack.length - 1]
Top(st) == IF Len(st) = 0 THEN Undefined ELSE st[Len(st)]

\* A slip: the first element is removed (shift), not the last.
Shift(st) == SubSeq(st, 2, Len(st))

\* stack.pop()
Pop(st) == SubSeq(st, 1, Len(st) - 1)

\* The delimiter that closes a mark.
closeFor(kind) ==
    IF kind = STRONG THEN <<"*", "*">>
    ELSE IF kind = EM THEN <<"*">>
    ELSE IF kind = UNDER THEN <<"_">>
    ELSE IF kind = CODE THEN <<Backtick>>
    ELSE <<>>

\* A slip: every delimiter token is an open token.
ToggleKindOpen(st, mark) == "open"

\* The toggle of an inline delimiter of the given kind: the kind of the
\* token it yields, and the stack it leaves.
ToggleKind(st, mark) == IF Top(st) = mark THEN "close" ELSE "open"

\* A slip: the toggle never pops.
ToggleStackPushOnly(st, mark) == Append(st, mark)

ToggleStack(st, mark) == IF Top(st) = mark THEN Pop(st) ELSE Append(st, mark)

(***************************************************************************)
(* The tokens.                                                             *)
(***************************************************************************)
Token(type, kind, value) == [type |-> type, kind |-> kind, value |-> value]

(***************************************************************************)
(* createUnifiedStreamSync: what one iteration of the loop reads.          *)
(***************************************************************************)
OptionKey == "includeTrailingSpaceInLineSyntax"

\* A slip: an absent option counts as false.
includeSpaceOfDefaultFalse(o) == IF OptionKey \in DOMAIN o THEN o[OptionKey] ELSE FALSE

\* opts.includeTrailingSpaceInLineSyntax ?? true
includeSpaceOf(o) == IF OptionKey \in DOMAIN o THEN o[OptionKey] ELSE TRUE

\* A slip: every offset counts as the start of a line.
atLineStartAlways(s, pos) == TRUE

atLineStart(s, pos) == pos = 0 \/ At(s, pos - 1) = "\n"

\* A slip: the top of the stack is never taken for an open code span.
inInlineCodeNever(st) == FALSE

inInlineCodeOf(st) == Top(st) = CODE

\* A slip: the replacement takes the whole marker, not its last space.
StripAll(v) == <<>>

\* m.value.replace(/ $/, '')
StripTrailingSpace(v) ==
    IF Len(v) > 0 /\ v[Len(v)] = " " THEN SubSeq(v, 1, Len(v) - 1) ELSE v

\* The value of a normal line marker's token.
LineValue(m, includeSpace) ==
    IF includeSpace THEN m.value ELSE StripTrailingSpace(m.value)

\* A slip: the tag runs to the last '>' of the input, not to the first.
closeIdxLast(s, k) ==
    IF IndexOfFrom(s, ">", k + 1) = -1 THEN -1
    ELSE CHOOSE j \in (k + 1)..(Len(s) - 1) :
             /\ At(s, j) = ">"
             /\ \A n \in (j + 1)..(Len(s) - 1) : At(s, n) # ">"

\* src.indexOf('>', i + 1)
closeIdxOf(s, k) == IndexOfFrom(s, ">", k + 1)

\* m && m.isFence
isFenceMatch(m) == ~m.isNull /\ m.isFence

\* A slip: line markers are matched inside a fence too.
isLineMatchInFence(fence, m) == ~m.isNull

\* !inFence && m
isLineMatch(fence, m) == ~fence /\ ~m.isNull

\* The branch of the loop body that one iteration takes, in the order the
\* source tries them.
Branch(s, k, st, fence) ==
    LET ch == At(s, k)
        next == At(s, k + 1)
        atSOL == atLineStart(s, k)
        inInlineCode == inInlineCodeOf(st)
        m == matchLineSyntax(s, k)
    IN  IF atSOL /\ isFenceMatch(m) THEN "fence"
        ELSE IF atSOL /\ isLineMatch(fence, m) THEN "line"
        ELSE IF fence THEN (IF isWS(ch) THEN "fenceWS" ELSE "fenceGrapheme")
        ELSE IF ~inInlineCode /\ ch = "<" /\ closeIdxOf(s, k) # -1 THEN "html"
        ELSE IF ~inInlineCode /\ ch = "*" /\ next = "*" THEN "strong"
        ELSE IF ~inInlineCode /\ ch = "*" /\ next # "*" THEN "em"
        ELSE IF ~inInlineCode /\ ch = "_" THEN "under"
        ELSE IF ~inInlineCode /\ ch = Backtick THEN "code"
        ELSE IF inInlineCode /\ ch = Backtick THEN "codeClose"
        ELSE IF isWS(ch) THEN "ws"
        ELSE "grapheme"

\* A slip: the cursor moves by the length of the match, stripped or not.
LineAdvanceByMatch(m, includeSpace) == m.len

\* i += value.length, for a normal line marker.
LineAdvance(m, includeSpace) == Len(LineValue(m, includeSpace))

\* The text of the tag that starts at offset k: through the first '>'.
tagTextOf(s, k) == Slice(s, k, closeIdxOf(s, k) + 1)

\* The kind of the token of a tag.
TagKind(tagText) == IF StartsWith(tagText, <<"<", "/">>, 0) THEN "close" ELSE "open"

\* The whitespace run at offset k.
runOf(s, k) == Slice(s, k, k + readWS(s, k))

(***************************************************************************)
(* The inputs of the model: every string over Alphabet up to MaxLen, and   *)
(* longer strings of the shapes the recognizers look for.                  *)
(***************************************************************************)
Strs(A, n) == UNION {[1..k -> A] : k \in 0..n}

Alphabet ==
    {"#", " ", "\n", "\t", "\r", ">", "<", "/", "-", "+", "*", "_", Backtick,
     "1", ".", ")", "a", "U+0301", "U+0600", "U+D83D", "U+DE00"}

InlineAlphabet == {"*", "_", Backtick, "<", ">", "/"}

LineAlphabet == {"#", ">", "1", ".", " ", "\n"}

FenceAlphabet == {"*", "<", ">", "#", " ", "\n", Backtick}

\* Runs of hashes, at start-of-line and not, followed by a space or not.
HeadingInputs ==
    {pre \o Repeat("#", n) \o post :
        pre \in {<<>>, <<"\n">>, <<"a">>},
        n \in 1..MaxHashes,
        post \in Strs({" ", "a"}, 2)}

\* A fence line, a body, and a second fence line.
FenceInputs ==
    {pre \o Repeat(Backtick, 3) \o info \o <<"\n">> \o body \o <<"\n">>
         \o Repeat(Backtick, 3) \o post :
        pre \in {<<>>, <<"*">>, <<Backtick, "\n">>},
        info \in {<<>>, <<"a">>, <<" ">>},
        body \in Strs(FenceAlphabet, MaxFenceBody),
        post \in {<<>>, <<"\n", "*">>, <<" ">>}}

\* Runs of digits, followed by a delimiter and a space or not.
OrderedInputs ==
    {pre \o digits \o delim \o post :
        pre \in {<<>>, <<"a">>},
        digits \in {<<"1">>, <<"1", "2">>},
        delim \in {<<>>, <<".">>, <<")">>, <<"-">>},
        post \in Strs({" ", "a", "*", "\n"}, 2)}

\* An open code span and the text in it.
CodeSpanAlphabet == {"*", "_", "<", ">", " ", "\n"}

CodeSpanInputs ==
    {<<Backtick>> \o body : body \in Strs(CodeSpanAlphabet, MaxCodeBody)}

\* The inputs the specification and the README give as examples.
Examples ==
    {<<"#", "H", "e", "l", "l", "o">>,
     <<"*", "*", "b", "o", "l", "d", "*", "*">>,
     <<"1", ".", " ", "i", "t", "e", "m">>,
     <<"#", " ", "H", "i", " ", "*", "x", "*">>,
     <<"*", "*", "a", "*", "b", "*", "*">>,
     <<"1", "2", ")", " ", "a", " ", "<", "b", "r", "/", ">">>,
     <<"<", "d", "i", "v", " ", "a", "=", "1", ">", "x", "<", "/", "d", "i", "v", ">">>}

Inputs ==
    Strs(Alphabet, MaxLen) \cup Strs(InlineAlphabet, MaxInlineLen)
        \cup Strs(LineAlphabet, MaxLineLen)
        \cup HeadingInputs \cup OrderedInputs \cup FenceInputs \cup CodeSpanInputs
        \cup Examples

\* The options objects: {} and the two values of the one recognized option.
Options ==
    {<<>>} \cup {[includeTrailingSpaceInLineSyntax |-> b] : b \in BOOLEAN}

(***************************************************************************)
(* toClosingTag is not called in the scanner's specification.              *)
(***************************************************************************)
NotCalled == [raised |-> FALSE, value |-> <<>>]

TagIdle ==
    /\ opening = [typeof |-> "string", chars |-> <<>>]
    /\ closing = NotCalled
    /\ tagPc = "idle"

(***************************************************************************)
(* Nor is a second invocation made, but where two are pulled together.     *)
(***************************************************************************)
Scan2Idle ==
    /\ src2 = <<>>
    /\ opts2 = <<>>
    /\ i2 = 0
    /\ stack2 = <<>>
    /\ inFence2 = FALSE
    /\ out2 = <<>>
    /\ done2 = FALSE

(***************************************************************************)
(* createUnifiedStream(src, opts): the state at the first pull.            *)
(***************************************************************************)
Init ==
    /\ src \in Inputs
    /\ opts \in Options
    /\ HAS_SEGMENTER \in BOOLEAN
    /\ i = 0
    /\ stack = <<>>
    /\ inFence = FALSE
    /\ out = <<>>
    /\ done = FALSE
    /\ TagIdle
    /\ Scan2Idle

includeSpace == includeSpaceOf(opts)

Yield(tok) == out' = Append(out, tok)

Frame == UNCHANGED <<src, opts, HAS_SEGMENTER, done, tagVars, scan2Vars>>

(***************************************************************************)
(* The branches of the loop body.  Each yields one token and moves the     *)
(* cursor; Pull takes the one that Branch selects.                         *)
(***************************************************************************)
\* 1) Fenced code open/close (line syntax).
FencedCodeLine ==
    /\ inFence' = ~inFence
    /\ Yield(Token("syntax", "line", matchLineSyntax(src, i).value))
    /\ i' = i + matchLineSyntax(src, i).len
    /\ UNCHANGED stack
    /\ Frame

\* 1) Normal line markers.
LineMarker ==
    /\ Yield(Token("syntax", "line", LineValue(matchLineSyntax(src, i), includeSpace)))
    /\ i' = i + LineAdvance(matchLineSyntax(src, i), includeSpace)
    /\ UNCHANGED <<stack, inFence>>
    /\ Frame

\* 2) and 4) Clumped whitespace, inside fenced code and outside.
Whitespace ==
    /\ Yield(Token("display", "whitespace", runOf(src, i)))
    /\ i' = i + readWS(src, i)
    /\ UNCHANGED <<stack, inFence>>
    /\ Frame

\* 2) and 4) The next grapheme, inside fenced code and outside.
Grapheme ==
    /\ Yield(Token("display", "default", graphemes(SliceFrom(src, i), HAS_SEGMENTER)))
    /\ i' = i + Len(graphemes(SliceFrom(src, i), HAS_SEGMENTER))
    /\ UNCHANGED <<stack, inFence>>
    /\ Frame

\* A slip: a tag is pushed on the mark stack as the inline marks are.
HtmlTagPushed ==
    /\ Yield(Token("syntax", TagKind(tagTextOf(src, i)), tagTextOf(src, i)))
    /\ i' = closeIdxOf(src, i) + 1
    /\ stack' = Append(stack, tagTextOf(src, i))
    /\ UNCHANGED inFence
    /\ Frame

\* 2.5) HTML tags (outside code contexts).
HtmlTag ==
    /\ Yield(Token("syntax", TagKind(tagTextOf(src, i)), tagTextOf(src, i)))
    /\ i' = closeIdxOf(src, i) + 1
    /\ UNCHANGED <<stack, inFence>>
    /\ Frame

\* 3) An inline delimiter toggles its mark.
Toggle(mark, value) ==
    /\ Yield(Token("syntax", ToggleKind(stack, mark), value))
    /\ stack' = ToggleStack(stack, mark)
    /\ i' = i + Len(value)
    /\ UNCHANGED inFence
    /\ Frame

\* 3) Inside inline code: only the backtick toggles.
InlineCodeClose ==
    /\ stack' = Pop(stack)
    /\ Yield(Token("syntax", "close", <<Backtick>>))
    /\ i' = i + 1
    /\ UNCHANGED inFence
    /\ Frame

Dispatch(cur) ==
    \/ cur = "fence" /\ FencedCodeLine
    \/ cur = "line" /\ LineMarker
    \/ cur = "fenceWS" /\ Whitespace
    \/ cur = "fenceGrapheme" /\ Grapheme
    \/ cur = "html" /\ HtmlTag
    \/ cur = "strong" /\ Toggle(STRONG, <<"*", "*">>)
    \/ cur = "em" /\ Toggle(EM, <<"*">>)
    \/ cur = "under" /\ Toggle(UNDER, <<"_">>)
    \/ cur = "code" /\ Toggle(CODE, <<Backtick>>)
    \/ cur = "codeClose" /\ InlineCodeClose
    \/ cur = "ws" /\ Whitespace
    \/ cur = "grapheme" /\ Grapheme

\* One pull of the consumer: one iteration of the loop, up to its yield.
Pull ==
    /\ ~done
    /\ i < Len(src)
    /\ Dispatch(Branch(src, i, stack, inFence))

\* The loop ends: the generator returns and the stream is exhausted.
Return ==
    /\ ~done
    /\ ~(i < Len(src))
    /\ done' = TRUE
    /\ UNCHANGED <<src, opts, HAS_SEGMENTER, i, stack, inFence, out, tagVars, scan2Vars>>

Next == Pull \/ Return

Spec == Init /\ [][Next]_vars

\* The inputs of the scans that are followed to their end.
MaxLiveLen == 3     \* strings of the scans followed to their end

LiveAlphabet == {"#", " ", "*", Backtick, "\n", "<"}

LiveExamples ==
    {<<"#", " ", "\n", Backtick, Backtick, Backtick, "a", "\n", "*">>,
     <<"<", "b", ">", "a", "U+0301", "U+D83D", "U+DE00", "\r", "\n">>}

LiveInputs == Strs(LiveAlphabet, MaxLiveLen) \cup LiveExamples \cup Examples

InitLive ==
    /\ src \in LiveInputs
    /\ opts \in Options
    /\ HAS_SEGMENTER \in BOOLEAN
    /\ i = 0
    /\ stack = <<>>
    /\ inFence = FALSE
    /\ out = <<>>
    /\ done = FALSE
    /\ TagIdle
    /\ Scan2Idle

\* The consumer keeps pulling (for await ... of): a pull that can be made is
\* made.
SpecLive == InitLive /\ [][Next]_vars /\ WF_vars(Next)

(***************************************************************************)
(* toClosingTag(opening).  The argument is any JavaScript value: typeof    *)
(* is its type and chars its code units when it is a string.  The          *)
(* completion of the call is a return of a string (raised is FALSE); no    *)
(* path of the function raises.                                            *)
(***************************************************************************)
Letters ==
    {"a", "b", "c", "d", "e", "f", "g", "h", "i", "j", "k", "l", "m",
     "n", "o", "p", "q", "r", "s", "t", "u", "v", "w", "x", "y", "z",
     "A", "B", "C", "D", "E", "F", "G", "H", "I", "J", "K", "L", "M",
     "N", "O", "P", "Q", "R", "S", "T", "U", "V", "W", "X", "Y", "Z"}

\* [a-zA-Z0-9:-]
isNameChar(c) == c \in Letters \/ isDigit(c) \/ c = ":" \/ c = "-"

RECURSIVE TrimStart(_)
TrimStart(s) ==
    IF Len(s) > 0 /\ isWS(s[1]) THEN TrimStart(Tail(s)) ELSE s

RECURSIVE TrimEnd(_)
TrimEnd(s) ==
    IF Len(s) > 0 /\ isWS(s[Len(s)]) THEN TrimEnd(SubSeq(s, 1, Len(s) - 1)) ELSE s

\* opening.trim()
Trim(s) == TrimEnd(TrimStart(s))

RECURSIVE NameEnd(_, _)
NameEnd(s, j) == IF isNameChar(At(s, j)) THEN NameEnd(s, j + 1) ELSE j

\* A slip: the name runs to the closing '>', attributes included.
tagNameWithAttributes(s) == Slice(s, WSEnd(s, 1), Len(s) - 1)

\* m[1] of /^<\s*([a-zA-Z0-9:-]+)/.exec(s) for an s that starts with '<':
\* the name characters after the whitespace that follows '<'; empty when
\* the expression does not match.
tagNameOf(s) == Slice(s, WSEnd(s, 1), NameEnd(s, WSEnd(s, 1)))

\* The string toClosingTag returns for a string argument.
closingTagOf(chars) ==
    LET s == Trim(chars)
    IN  IF ~StartsWith(s, <<"<">>, 0) \/ ~EndsWith(s, <<">">>) THEN <<>>
        ELSE IF StartsWith(s, <<"<", "/">>, 0) \/ EndsWith(s, <<"/", ">">>) THEN <<>>
        ELSE IF tagNameOf(s) = <<>> THEN <<>>
        ELSE <<"<", "/">> \o tagNameOf(s) \o <<">">>

Returns(value) == [raised |-> FALSE, value |-> value]

toClosingTag(o) ==
    IF o.typeof # "string" THEN Returns(<<>>) ELSE Returns(closingTagOf(o.chars))

String(chars) == [typeof |-> "string", chars |-> chars]

NonStrings == {[typeof |-> ty, chars |-> <<>>] : ty \in {"undefined", "number", "object"}}

TagAlphabet == {"<", ">", "/", " ", "a", ":", "="}

\* The examples of the README and of the source's comment.
TagExamples ==
    {<<"<", "d", "i", "v", " ", "c", "l", "a", "s", "s", "=", "\"", "x", "\"", ">">>,
     <<"<", "d", "i", "v", " ", "c", "l", "a", "s", "s", "=", "\"", "p", "l", "a", "n", "\"", ">">>,
     <<"<", "u", "l", ">">>,
     <<"<", "b", "r", "/", ">">>,
     <<"<", "/", "d", "i", "v", ">">>}

TagInputs ==
    {String(s) : s \in Strs(TagAlphabet, MaxTagLen) \cup TagExamples} \cup NonStrings

ScanIdle ==
    /\ src = <<>>
    /\ opts = <<>>
    /\ HAS_SEGMENTER = TRUE
    /\ i = 0
    /\ stack = <<>>
    /\ inFence = FALSE
    /\ out = <<>>
    /\ done = FALSE

InitTag ==
    /\ opening \in TagInputs
    /\ closing = NotCalled
    /\ tagPc = "idle"
    /\ ScanIdle
    /\ Scan2Idle

CallToClosingTag ==
    /\ tagPc = "idle"
    /\ closing' = toClosingTag(opening)
    /\ tagPc' = "returned"
    /\ UNCHANGED <<opening, scanVars, scan2Vars>>

NextTag == CallToClosingTag

SpecTag == InitTag /\ [][NextTag]_vars

(***************************************************************************)
(* Two invocations pulled in any interleaving.  Each call of the generator *)
(* function has its own src, opts, includeSpace, stack, i and inFence      *)
(* (locals and parameters of createUnifiedStreamSync); the module-level    *)
(* HAS_SEGMENTER and Mark are constants, read by both.                     *)
(***************************************************************************)
MaxPairLen == 2     \* strings handed to two invocations pulled together

\* One iteration of the loop as a function of an invocation's locals: the
\* token it yields and the locals it leaves.
Iteration(s, incl, seg, k, st, fence) ==
    LET cur == Branch(s, k, st, fence)
        m == matchLineSyntax(s, k)
        g == graphemes(SliceFrom(s, k), seg)
        Result(tok, k2, st2, fence2) ==
            [tok |-> tok, i |-> k2, stack |-> st2, inFence |-> fence2]
    IN  CASE cur = "fence" ->
                Result(Token("syntax", "line", m.value), k + m.len, st, ~fence)
          [] cur = "line" ->
                Result(Token("syntax", "line", LineValue(m, incl)),
                       k + LineAdvance(m, incl), st, fence)
          [] cur \in {"fenceWS", "ws"} ->
                Result(Token("display", "whitespace", runOf(s, k)),
                       k + readWS(s, k), st, fence)
          [] cur \in {"fenceGrapheme", "grapheme"} ->
                Result(Token("display", "default", g), k + Len(g), st, fence)
          [] cur = "html" ->
                Result(Token("syntax", TagKind(tagTextOf(s, k)), tagTextOf(s, k)),
                       closeIdxOf(s, k) + 1, st, fence)
          [] cur = "strong" ->
                Result(Token("syntax", ToggleKind(st, STRONG), <<"*", "*">>),
                       k + 2, ToggleStack(st, STRONG), fence)
          [] cur = "em" ->
                Result(Token("syntax", ToggleKind(st, EM), <<"*">>),
                       k + 1, ToggleStack(st, EM), fence)
          [] cur = "under" ->
                Result(Token("syntax", ToggleKind(st, UNDER), <<"_">>),
                       k + 1, ToggleStack(st, UNDER), fence)
          [] cur = "code" ->
                Result(Token("syntax", ToggleKind(st, CODE), <<Backtick>>),
                       k + 1, ToggleStack(st, CODE), fence)
          [] cur = "codeClose" ->
                Result(Token("syntax", "close", <<Backtick>>), k + 1, Pop(st), fence)

\* A slip: the mark stack is a module-level array, the same for every call.
Locals2SharedStack ==
    [src |-> src2, opts |-> opts2, i |-> i2, stack |-> stack, inFence |-> inFence2]

\* What an iteration of the second invocation reads: its own locals.
Locals2 ==
    [src |-> src2, opts |-> opts2, i |-> i2, stack |-> stack2, inFence |-> inFence2]

Pull2 ==
    /\ ~done2
    /\ Locals2.i < Len(Locals2.src)
    /\ LET r == Iteration(Locals2.src, includeSpaceOf(Locals2.opts), HAS_SEGMENTER,
                          Locals2.i, Locals2.stack, Locals2.inFence)
       IN  /\ out2' = Append(out2, r.tok)
           /\ i2' = r.i
           /\ stack2' = r.stack
           /\ inFence2' = r.inFence
    /\ UNCHANGED <<src2, opts2, done2, scanVars, tagVars>>

Return2 ==
    /\ ~done2
    /\ ~(Locals2.i < Len(Locals2.src))
    /\ done2' = TRUE
    /\ UNCHANGED <<src2, opts2, i2, stack2, inFence2, out2, scanVars, tagVars>>

PairAlphabet == {"*", Backtick}

PairExamples ==
    {<<"#", " ", "H", "i", " ", "*", "x", "*">>,
     <<Backtick, Backtick, Backtick, "\n", "*", "x">>,
     <<"*", "*", "a", "U+0301", "_">>,
     <<Backtick, "<", "b", ">">>}

PairInputs == Strs(PairAlphabet, MaxPairLen) \cup PairExamples

InitPair ==
    /\ src \in PairInputs
    /\ src2 \in PairInputs
    /\ opts \in Options
    /\ opts2 \in Options
    /\ HAS_SEGMENTER \in BOOLEAN
    /\ i = 0
    /\ i2 = 0
    /\ stack = <<>>
    /\ stack2 = <<>>
    /\ inFence = FALSE
    /\ inFence2 = FALSE
    /\ out = <<>>
    /\ out2 = <<>>
    /\ done = FALSE
    /\ done2 = FALSE
    /\ TagIdle

NextPair == Pull \/ Return \/ Pull2 \/ Return2

SpecPair == InitPair /\ [][NextPair]_vars

(***************************************************************************)
(* What the claims speak of: the last token yielded, where the cursor was  *)
(* when it was yielded, and whether a fence was open then.                 *)
(***************************************************************************)
RECURSIVE Concat(_)
Concat(toks) ==
    IF toks = <<>> THEN <<>> ELSE Head(toks).value \o Concat(Tail(toks))

HasTok == Len(out) > 0

Tok == out[Len(out)]

\* The cursor when Tok was yielded.
At0 == i - Len(Tok.value)

IsLine(tok) == tok.type = "syntax" /\ tok.kind = "line"

IsFenceLine(tok) == IsLine(tok) /\ StartsWith(tok.value, Repeat(Backtick, 3), 0)

IsDisplay(tok) == tok.type = "display" /\ tok.kind \in {"default", "whitespace"}

IsWhitespaceTok(tok) == tok.type = "display" /\ tok.kind = "whitespace"

IsDefaultTok(tok) == tok.type = "display" /\ tok.kind = "default"

FenceLinesIn(toks) == Cardinality({n \in 1..Len(toks) : IsFenceLine(toks[n])})

\* The offset in src of the n-th token, and of its end.
TokStart(n) == Len(Concat(SubSeq(out, 1, n - 1)))

TokEnd(n) == TokStart(n) + Len(out[n].value)

(***************************************************************************)
(* C1.  Round-trip: after any number of pulled tokens the concatenation    *)
(* of the values yielded, in emission order, is the input up to the        *)
(* cursor, and when the stream is exhausted it is the whole input; for     *)
(* every options object and with or without Intl.Segmenter.                *)
(***************************************************************************)
C1_RoundTrip ==
    /\ Concat(out) = Slice(src, 0, i)
    /\ i <= Len(src)
    /\ done => Concat(out) = src

\* An exhausted stream whose first token is a line marker stripped of its
\* space, followed by more tokens.
C1_Witness ==
    /\ done
    /\ ~includeSpace
    /\ Len(out) > 2
    /\ IsLine(out[1])
    /\ out[1].value = <<"#">>
    /\ Concat(out) = src

(***************************************************************************)
(* What the claims about toClosingTag speak of.                            *)
(***************************************************************************)
Returned == tagPc = "returned"

IsString == opening.typeof = "string"

\* The longest run of name characters of s from its second character on.
NameAfterLt(s) ==
    LET n == CHOOSE n \in 0..Len(s) :
                 /\ \A k \in 2..(n + 1) : k <= Len(s) /\ isNameChar(s[k])
                 /\ ~(n + 2 <= Len(s) /\ isNameChar(s[n + 2]))
    IN  SubSeq(s, 2, n + 1)

\* '</name>': a closing tag.
IsClosingTag(s) ==
    /\ Len(s) >= 4
    /\ s[1] = "<"
    /\ s[2] = "/"
    /\ s[Len(s)] = ">"
    /\ \A k \in 3..(Len(s) - 1) : isNameChar(s[k])

\* '<name ...>': an opening tag, its name right after '<', not self-closing.
IsOpeningTag(s) ==
    /\ Len(s) >= 3
    /\ s[1] = "<"
    /\ isNameChar(s[2])
    /\ s[Len(s)] = ">"
    /\ s[Len(s) - 1] # "/"

IsSelfClosingTag(s) ==
    /\ Len(s) >= 3
    /\ s[1] = "<"
    /\ s[Len(s) - 1] = "/"
    /\ s[Len(s)] = ">"

(***************************************************************************)
(* C2.  toClosingTag returns its input unchanged when the input is already *)
(* a closing tag: toClosingTag('</name>') = '</name>'.  The source's       *)
(* comment and the README say so; the code returns the empty string.       *)
(***************************************************************************)
C2_ClosingTagUnchanged ==
    (Returned /\ IsString /\ IsClosingTag(opening.chars))
        => closing = Returns(opening.chars)

(***************************************************************************)
(* C3.  toClosingTag never raises; it returns '</name>' for an opening tag *)
(* whose name follows '<', attributes dropped; and it returns the empty    *)
(* string for a self-closing tag, for a string that, trimmed, does not     *)
(* start with '<' and end with '>', and for an argument that is no string. *)
(***************************************************************************)
C3_ToClosingTag ==
    Returned =>
        /\ ~closing.raised
        /\ ~IsString => closing.value = <<>>
        /\ IsString =>
            LET s == Trim(opening.chars)
            IN  /\ IsOpeningTag(s) =>
                    closing.value = <<"<", "/">> \o NameAfterLt(s) \o <<">">>
                /\ IsSelfClosingTag(s) => closing.value = <<>>
                /\ ~(Len(s) > 0 /\ s[1] = "<" /\ s[Len(s)] = ">") =>
                    closing.value = <<>>

\* The README's example: '<div class="x">' gave '</div>'.
C3_Witness ==
    /\ Returned
    /\ opening = String(<<"<", "d", "i", "v", " ", "c", "l", "a", "s", "s", "=",
                          "\"", "x", "\"", ">">>)
    /\ closing = Returns(<<"<", "/", "d", "i", "v", ">">>)

(***************************************************************************)
(* C4.  Fence sanctity: every token yielded after an odd number of fence   *)
(* lines (between a fence-opening line and the next fence line) is a       *)
(* display token, or is that next fence line itself; no open, close or     *)
(* other line token is yielded there, whatever the text.                   *)
(***************************************************************************)
C4_FenceSanctity ==
    \A n \in 1..Len(out) :
        FenceLinesIn(SubSeq(out, 1, n - 1)) % 2 = 1
            => IsDisplay(out[n]) \/ IsFenceLine(out[n])

\* Inside a fence a '*', a '<' or a '#' came out as a display token; the
\* fence then closed and the '*' after it opened a mark.
C4_Witness ==
    \E n \in 1..Len(out) :
        /\ IsFenceLine(out[n])
        /\ n + 3 < Len(out)
        /\ IsDefaultTok(out[n + 1])
        /\ out[n + 1].value \in {<<"*">>, <<"<">>, <<"#">>}
        /\ IsFenceLine(out[n + 3])
        /\ out[Len(out)] = Token("syntax", "open", <<"*">>)

(***************************************************************************)
(* C5.  Whitespace clumping, as the claim states it: when the stream is    *)
(* exhausted, every maximal run of whitespace characters of the source is  *)
(* the value of one whitespace display token.                              *)
(***************************************************************************)
IsMaximalRun(a, b) ==
    /\ a < b
    /\ \A k \in a..(b - 1) : isWS(At(src, k))
    /\ ~isWS(At(src, a - 1))
    /\ ~isWS(At(src, b))

C5_EveryRunOneToken ==
    done =>
        \A a \in 0..Len(src), b \in 0..Len(src) :
            IsMaximalRun(a, b) =>
                \E n \in 1..Len(out) :
                    /\ IsWhitespaceTok(out[n])
                    /\ TokStart(n) = a
                    /\ TokEnd(n) = b

(***************************************************************************)
(* C5 as amended.  Every whitespace display token is a non-empty run of    *)
(* whitespace characters that ends at a character that is no whitespace or *)
(* at the end of the input, and that begins where a maximal run begins or  *)
(* right after the token that took the characters before it: a line token  *)
(* (the marker's trailing space, a fence line's newline) or a grapheme     *)
(* that ends with a space.  A default display token never begins with a    *)
(* whitespace character, and the only whitespace it can hold is a space    *)
(* that Intl.Segmenter joins to a prepended mark before it.  So a maximal  *)
(* run that no other token takes a part of is exactly one whitespace       *)
(* display token.                                                          *)
(***************************************************************************)
AllWS(v) == \A k \in 1..Len(v) : isWS(v[k])

NoWS(v) == \A k \in 1..Len(v) : ~isWS(v[k])

C5_Clumped ==
    HasTok =>
        /\ IsWhitespaceTok(Tok) =>
            /\ Len(Tok.value) >= 1
            /\ AllWS(Tok.value)
            /\ Tok.value = Slice(src, At0, i)
            /\ ~isWS(At(src, i))
            /\ \/ ~isWS(At(src, At0 - 1))
               \/ Len(out) > 1 /\ IsLine(out[Len(out) - 1])
               \/ Len(out) > 1 /\ IsDefaultTok(out[Len(out) - 1])
                                /\ ~NoWS(out[Len(out) - 1].value)
        /\ IsDefaultTok(Tok) =>
            /\ ~isWS(Tok.value[1])
            /\ ~HAS_SEGMENTER => NoWS(Tok.value)
            /\ \A k \in 2..Len(Tok.value) :
                    isWS(Tok.value[k]) =>
                        (Tok.value[k] = " " /\ isPrepend(Tok.value[k - 1]))
        /\ (IsDisplay(Tok) /\ isWS(At(src, At0))) => IsWhitespaceTok(Tok)

\* A run of several whitespace characters came out as one token, and so
\* did the rest of a run whose first space a line token took.
C5_Witness ==
    /\ Len(out) > 1
    /\ IsWhitespaceTok(Tok)
    /\ Len(Tok.value) >= 2
    /\ IsLine(out[Len(out) - 1])
    /\ isWS(At(src, At0 - 1))

(***************************************************************************)
(* What the claims about one step speak of: a step that yields a token,    *)
(* the token it yields, and the text at the cursor before it.              *)
(***************************************************************************)
Yields == Len(out') = Len(out) + 1

NewTok == out'[Len(out')]

\* The cursor is at offset 0 or right after a newline.
AtStartOfLine == i = 0 \/ (i > 0 /\ src[i] = "\n")

\* The inline delimiter at the cursor, '**' before '*'; none is <<>>.
DelimiterHere ==
    IF At(src, i) = "*" /\ At(src, i + 1) = "*" THEN <<"*", "*">>
    ELSE IF At(src, i) = "*" THEN <<"*">>
    ELSE IF At(src, i) = "_" THEN <<"_">>
    ELSE IF At(src, i) = Backtick THEN <<Backtick>>
    ELSE <<>>

MarkOfDelimiter(d) ==
    IF d = <<"*", "*">> THEN STRONG
    ELSE IF d = <<"*">> THEN EM
    ELSE IF d = <<"_">> THEN UNDER
    ELSE CODE

\* The step toggles the mark of delimiter d: a pop and a close token when
\* the mark is on top of the stack, a push and an open token otherwise.
Toggles(d) ==
    IF Len(stack) > 0 /\ stack[Len(stack)] = MarkOfDelimiter(d)
        THEN /\ stack' = SubSeq(stack, 1, Len(stack) - 1)
             /\ NewTok = [type |-> "syntax", kind |-> "close", value |-> d]
        ELSE /\ stack' = stack \o <<MarkOfDelimiter(d)>>
             /\ NewTok = [type |-> "syntax", kind |-> "open", value |-> d]

OutsideCode == ~inFence /\ ~(Len(stack) > 0 /\ stack[Len(stack)] = CODE)

\* The delimiter at the cursor begins a line marker: the list marker '* '
\* or a fence line of three backticks, at start-of-line.
DelimiterIsLineMarker ==
    /\ AtStartOfLine
    /\ \/ At(src, i) = "*" /\ At(src, i + 1) = " "
       \/ /\ At(src, i) = Backtick
          /\ At(src, i + 1) = Backtick
          /\ At(src, i + 2) = Backtick

Bold == <<"*", "*", "b", "o", "l", "d", "*", "*">>

BoldTokens ==
    <<Token("syntax", "open", <<"*", "*">>),
      Token("display", "default", <<"b">>),
      Token("display", "default", <<"o">>),
      Token("display", "default", <<"l">>),
      Token("display", "default", <<"d">>),
      Token("syntax", "close", <<"*", "*">>)>>

(***************************************************************************)
(* C6.  Inline mark toggle, as the claim states it: outside a fence and    *)
(* outside an open code span, every step at a delimiter toggles the        *)
(* delimiter's mark.                                                       *)
(***************************************************************************)
C6_EveryDelimiterToggles ==
    [][(Yields /\ OutsideCode /\ DelimiterHere # <<>>) => Toggles(DelimiterHere)]_vars

(***************************************************************************)
(* C6 as amended.  Outside a fence and outside an open code span, every    *)
(* step at a delimiter that does not begin a line marker at start-of-line  *)
(* (the list marker '* ', a fence line) toggles the delimiter's mark: a    *)
(* pop and a close token when the mark is on top of the stack, a push and  *)
(* an open token otherwise; and '**bold**' yields open('**'), one display  *)
(* token for each of 'b', 'o', 'l', 'd', close('**').                      *)
(***************************************************************************)
C6_Toggle ==
    /\ [][(Yields /\ OutsideCode /\ DelimiterHere # <<>> /\ ~DelimiterIsLineMarker)
            => Toggles(DelimiterHere)]_vars
    /\ []((done /\ src = Bold) => out = BoldTokens)

\* '**bold**' is scanned to its end, its mark opened and closed.
C6_Witness ==
    /\ done
    /\ src = Bold
    /\ out[1].kind = "open"
    /\ out[6].kind = "close"
    /\ stack = <<>>

(***************************************************************************)
(* C7.  HTML tag detection: outside a fence and outside an open code span, *)
(* a step at a '<' with a later '>' yields one syntax token whose value    *)
(* runs from the '<' through the first '>' after it, of kind close when    *)
(* the value starts with '</' and of kind open otherwise; a step at a '<'  *)
(* with no later '>' yields the '<' as one default display token.          *)
(***************************************************************************)
LaterCloses == {j \in (i + 1)..(Len(src) - 1) : At(src, j) = ">"}

FirstClose == CHOOSE j \in LaterCloses : \A k \in LaterCloses : j <= k

C7_HtmlTag ==
    [][(Yields /\ OutsideCode /\ At(src, i) = "<") =>
         IF LaterCloses # {}
         THEN /\ NewTok.type = "syntax"
              /\ NewTok.value = Slice(src, i, FirstClose + 1)
              /\ NewTok.kind = (IF At(src, i + 1) = "/" THEN "close" ELSE "open")
              /\ i' = FirstClose + 1
              /\ stack' = stack
         ELSE /\ IsDefaultTok(NewTok)
              /\ NewTok.value = Slice(src, i, i')
              /\ NewTok.value[1] = "<"
              /\ \A k \in 2..Len(NewTok.value) : isExtend(NewTok.value[k])
              /\ stack' = stack]_vars

\* The self-closing '<br/>' came out as an open token.
C7_Witness ==
    /\ HasTok
    /\ Tok = Token("syntax", "open", <<"<", "b", "r", "/", ">">>)

(***************************************************************************)
(* C8.  Heading recognition: a step yields a heading line token exactly    *)
(* when the cursor is at start-of-line, the fence flag is false, and the   *)
(* text at the cursor is n hashes, 1 <= n <= 6, and then a space; the      *)
(* token's value is those n hashes and the space (the hashes alone when    *)
(* the option strips the space, C10) and the cursor moves past it.  Hashes *)
(* with no space after them and runs of 7 hashes or more yield no line     *)
(* token.                                                                  *)
(***************************************************************************)
\* The number of hashes at the cursor.
HashesHere ==
    CHOOSE n \in 0..Len(src) :
        /\ \A k \in 0..(n - 1) : At(src, i + k) = "#"
        /\ At(src, i + n) # "#"

OptionIsFalse == OptionKey \in DOMAIN opts /\ opts[OptionKey] = FALSE

TrailingSpace == IF OptionIsFalse THEN <<>> ELSE <<" ">>

HeadingHere ==
    /\ AtStartOfLine
    /\ ~inFence
    /\ HashesHere \in 1..6
    /\ At(src, i + HashesHere) = " "

IsOrderedTok(tok) == IsLine(tok) /\ isDigit(tok.value[1])

HasNewline(v) == \E k \in 1..Len(v) : v[k] = "\n"

C9_RestOfLineIsDisplay ==
    \A n \in 1..Len(out) :
        IsOrderedTok(out[n]) =>
            \A m \in (n + 1)..Len(out) :
                (\A k \in (n + 1)..m : ~HasNewline(out[k].value))
                    => IsDisplay(out[m])

(***************************************************************************)
(* C9 as amended.  A step yields an ordered list line token exactly when   *)
(* the cursor is at start-of-line, the fence flag is false, and the text   *)
(* at the cursor is one or more digits, then '.' or ')', then a space; the *)
(* token's value is the digits, the delimiter and the space (without the   *)
(* space when the option strips it) and the cursor moves past it.  The     *)
(* rest of the line is scanned as any other text: '1. item' yields         *)
(* line('1. ') and the display tokens 'i', 't', 'e', 'm'.                  *)
(***************************************************************************)
DigitsHere ==
    CHOOSE n \in 0..Len(src) :
        /\ \A k \in 0..(n - 1) : isDigit(At(src, i + k))
        /\ ~isDigit(At(src, i + n))

OrderedHere ==
    /\ AtStartOfLine
    /\ ~inFence
    /\ DigitsHere >= 1
    /\ At(src, i + DigitsHere) \in {".", ")"}
    /\ At(src, i + DigitsHere + 1) = " "

Item == <<"1", ".", " ", "i", "t", "e", "m">>

ItemTokens ==
    <<Token("syntax", "line", <<"1", ".", " ">>),
      Token("display", "default", <<"i">>),
      Token("display", "default", <<"t">>),
      Token("display", "default", <<"e">>),
      Token("display", "default", <<"m">>)>>

C9_Ordered ==
    /\ [][Yields =>
            /\ OrderedHere <=> IsOrderedTok(NewTok)
            /\ OrderedHere =>
                /\ NewTok.value = Slice(src, i, i + DigitsHere + 1) \o TrailingSpace
                /\ i' = i + Len(NewTok.value)]_vars
    /\ []((done /\ src = Item /\ ~OptionIsFalse) => out = ItemTokens)

\* '1. item' is scanned to its end.
C9_Witness ==
    /\ done
    /\ src = Item
    /\ ~OptionIsFalse
    /\ Len(out) = 5
    /\ IsOrderedTok(out[1])

(***************************************************************************)
(* C10.  The option includeTrailingSpaceInLineSyntax.  When it is false,   *)
(* the line token of a marker that is no fence line is the marker without  *)
(* its trailing space, the cursor moves by that shortened value only, and  *)
(* the token that follows at once is a whitespace display token that       *)
(* begins with the stripped space.  When it is true or absent the line     *)
(* token is the whole marker, space included.  A fence line token is the   *)
(* whole line whatever the option.                                         *)
(***************************************************************************)
\* The marker at the cursor: the text through the first space.
MarkerHere ==
    LET e == CHOOSE e \in i..(Len(src) - 1) :
                 /\ At(src, e) = " "
                 /\ \A k \in i..(e - 1) : At(src, k) # " "
    IN  Slice(src, i, e + 1)

\* The line at the cursor: the text through the first newline, or to the
\* end of the input.
LineHere ==
    LET ends == {e \in i..(Len(src) - 1) : At(src, e) = "\n"}
    IN  IF ends = {} THEN SliceFrom(src, i)
        ELSE Slice(src, i, (CHOOSE e \in ends : \A k \in ends : e <= k) + 1)

LastIsStrippedMarker ==
    /\ HasTok
    /\ IsLine(Tok)
    /\ ~IsFenceLine(Tok)
    /\ OptionIsFalse

C10_Option ==
    /\ [][Yields =>
            /\ (IsLine(NewTok) /\ ~IsFenceLine(NewTok)) =>
                IF OptionIsFalse
                THEN /\ NewTok.value \o <<" ">> = MarkerHere
                     /\ i' = i + Len(MarkerHere) - 1
                ELSE /\ NewTok.value = MarkerHere
                     /\ i' = i + Len(MarkerHere)
            /\ IsFenceLine(NewTok) =>
                /\ NewTok.value = LineHere
                /\ i' = i + Len(LineHere)
            /\ LastIsStrippedMarker =>
                /\ IsWhitespaceTok(NewTok)
                /\ NewTok.value[1] = " "]_vars
    /\ [](LastIsStrippedMarker => (~done /\ At(src, i) = " "))

\* With the option false, '#' came out alone and the space after it began
\* the whitespace token that followed.
C10_Witness ==
    /\ OptionIsFalse
    /\ Len(out) >= 2
    /\ out[1] = Token("syntax", "line", <<"#">>)
    /\ IsWhitespaceTok(out[2])
    /\ out[2].value[1] = " "
    /\ Len(out[2].value) >= 2

(***************************************************************************)
(* C11.  End-to-end scenario: with default options the input '# Hi *x*'    *)
(* yields exactly, in this order and nothing else: line('# '), the display *)
(* tokens 'H' and 'i', the whitespace token ' ', open('*'), the display    *)
(* token 'x', close('*'); every prefix of the stream is a prefix of that   *)
(* sequence.                                                               *)
(***************************************************************************)
HiX == <<"#", " ", "H", "i", " ", "*", "x", "*">>

HiXTokens ==
    <<Token("syntax", "line", <<"#", " ">>),
      Token("display", "default", <<"H">>),
      Token("display", "default", <<"i">>),
      Token("display", "whitespace", <<" ">>),
      Token("syntax", "open", <<"*">>),
      Token("display", "default", <<"x">>),
      Token("syntax", "close", <<"*">>)>>

DefaultOptions == opts = <<>>

C11_Scenario ==
    (src = HiX /\ DefaultOptions) =>
        /\ Len(out) <= Len(HiXTokens)
        /\ out = SubSeq(HiXTokens, 1, Len(out))
        /\ done => out = HiXTokens

\* '# Hi *x*' is scanned to its end with default options: seven tokens.
C11_Witness ==
    /\ done
    /\ src = HiX
    /\ DefaultOptions
    /\ Len(out) = 7
    /\ Tok = Token("syntax", "close", <<"*">>)

(***************************************************************************)
(* C12.  Independent invocations: when two scans over possibly different   *)
(* inputs are pulled in any interleaving, the tokens each has yielded are  *)
(* a prefix of the sequence it yields when run alone, and the whole of it  *)
(* once it has returned; and a step of one scan leaves the other scan's    *)
(* cursor, mark stack, fence flag and tokens as they were.                 *)
(***************************************************************************)
\* The tokens of a scan run alone, from the given locals to the end.
RECURSIVE RunFrom(_, _, _, _, _, _)
RunFrom(s, incl, seg, k, st, fence) ==
    IF ~(k < Len(s)) THEN <<>>
    ELSE LET r == Iteration(s, incl, seg, k, st, fence)
         IN  <<r.tok>> \o RunFrom(s, incl, seg, r.i, r.stack, r.inFence)

RunAlone(s, o, seg) == RunFrom(s, includeSpaceOf(o), seg, 0, <<>>, FALSE)

IsPrefix(a, b) == Len(a) <= Len(b) /\ a = SubSeq(b, 1, Len(a))

Scan1State == <<i, stack, inFence, out, done>>

Scan2State == <<i2, stack2, inFence2, out2, done2>>

C12_Independent ==
    /\ [](/\ IsPrefix(out, RunAlone(src, opts, HAS_SEGMENTER))
          /\ done => out = RunAlone(src, opts, HAS_SEGMENTER)
          /\ IsPrefix(out2, RunAlone(src2, opts2, HAS_SEGMENTER))
          /\ done2 => out2 = RunAlone(src2, opts2, HAS_SEGMENTER))
    /\ [][/\ Scan1State' # Scan1State => Scan2State' = Scan2State
          /\ Scan2State' # Scan2State => Scan1State' = Scan1State]_vars

\* Both scans are under way at once, over different inputs, with different
\* mark stacks and fence flags.
C12_Witness ==
    /\ src # src2
    /\ ~done /\ Len(out) > 0 /\ i < Len(src)
    /\ ~done2 /\ Len(out2) > 0 /\ i2 < Len(src2)
    /\ stack # stack2
    /\ inFence # inFence2

(***************************************************************************)
(* C13.  Progress and termination: every step of the loop yields exactly   *)
(* one token, whose value is not empty, and moves the cursor forward by    *)
(* exactly the length of that value; the cursor never exceeds the length   *)
(* of the source; a consumer that keeps pulling reaches the end of the     *)
(* stream, with the cursor at the length of the source; and the empty      *)
(* input yields no token.                                                  *)
(***************************************************************************)
\* A step of the loop: any step but the return of the generator.
LoopStep == i' # i \/ out' # out \/ stack' # stack \/ inFence' # inFence

C13_Progress ==
    /\ [][LoopStep =>
            /\ out' = Append(out, NewTok)
            /\ Len(NewTok.value) >= 1
            /\ i' = i + Len(NewTok.value)
            /\ i' > i
            /\ i' <= Len(src)]_vars
    /\ [](i <= Len(src))
    /\ <>(done /\ i = Len(src))
    /\ [](src = <<>> => out = <<>>)
    /\ [](done => i = Len(src))

\* A scan has ended at the end of its source after steps of several
\* lengths: a stripped marker of one unit and a fence line of four or more.
C13_Witness ==
    /\ done
    /\ i = Len(src)
    /\ Len(out) >= 3
    /\ \E n \in 1..Len(out) : IsLine(out[n]) /\ Len(out[n].value) = 1
    /\ \E n \in 1..Len(out) : Len(out[n].value) >= 4

(***************************************************************************)
(* C14.  Code-span isolation: in a step taken while the top of the mark    *)
(* stack is the code span and the fence flag is false, the only open or    *)
(* close token that can be yielded is close of the backtick; and a '*'     *)
(* (one of '**' too), a '_' or a '<' (even when a '>' follows) at the      *)
(* cursor, unless a start-of-line match takes it (the list marker '* '),   *)
(* is yielded as a default display token and the mark stack stays as it    *)
(* was.                                                                    *)
(***************************************************************************)
InCodeSpan == ~inFence /\ Len(stack) > 0 /\ stack[Len(stack)] = CODE

IsOpenOrClose(tok) == tok.type = "syntax" /\ tok.kind \in {"open", "close"}

ListMarkerHere == AtStartOfLine /\ At(src, i) = "*" /\ At(src, i + 1) = " "

C14_CodeSpan ==
    [][(Yields /\ InCodeSpan) =>
        /\ IsOpenOrClose(NewTok) =>
            /\ NewTok = [type |-> "syntax", kind |-> "close", value |-> <<Backtick>>]
            /\ At(src, i) = Backtick
            /\ stack' = SubSeq(stack, 1, Len(stack) - 1)
        /\ (At(src, i) \in {"*", "_", "<"} /\ ~ListMarkerHere) =>
            /\ IsDefaultTok(NewTok)
            /\ NewTok.value[1] = At(src, i)
            /\ NewTok.value = Slice(src, i, i')
            /\ \A k \in 2..Len(NewTok.value) : isExtend(NewTok.value[k])
            /\ stack' = stack]_vars

\* In an open code span a '<' that a '>' follows came out as a default
\* display token, after a '*' did.
C14_Witness ==
    /\ InCodeSpan
    /\ Len(out) >= 3
    /\ Tok = Token("display", "default", <<"<">>)
    /\ out[Len(out) - 1] = Token("display", "default", <<"*">>)
    /\ IndexOfFrom(src, ">", i) # -1

(***************************************************************************)
(* C15.  Line tokens only at start-of-line: every line token is yielded    *)
(* with the cursor at offset 0 or right after a '\n'; so a marker ('# ',   *)
(* '> ', '- ', '1. ', three backticks) at any other offset yields no line  *)
(* token.                                                                  *)
(***************************************************************************)
C15_LineAtStart ==
    (HasTok /\ IsLine(Tok)) => (At0 = 0 \/ (At0 > 0 /\ src[At0] = "\n"))

\* After the line token of '# ' a second '# ', not at the start of a line,
\* began as a display token.
C15_Witness ==
    /\ Len(out) = 2
    /\ out[1] = Token("syntax", "line", <<"#", " ">>)
    /\ Tok = Token("display", "default", <<"#">>)
    /\ At0 = 2
    /\ At(src, i) = " "

(***************************************************************************)
(* C16.  Fence line token: a step taken with the cursor at start-of-line   *)
(* at three backticks, whether the fence flag is true or false and         *)
(* whatever the mark stack holds, yields one line token whose value is the *)
(* whole line, from the backticks through the '\n' that ends it (or to the *)
(* end of the input when there is none), info string included; it flips   *)
(* the fence flag, moves the cursor past the line and leaves the mark      *)
(* stack as it was.  The end of the stream yields no token and leaves the  *)
(* flag as it is, true or not.                                             *)
(***************************************************************************)
FenceHere ==
    /\ AtStartOfLine
    /\ At(src, i) = Backtick
    /\ At(src, i + 1) = Backtick
    /\ At(src, i + 2) = Backtick

C16_FenceLine ==
    /\ [][(Yields /\ FenceHere) =>
            /\ out' = Append(out, [type |-> "syntax", kind |-> "line", value |-> LineHere])
            /\ i' = i + Len(LineHere)
            /\ inFence' = ~inFence
            /\ stack' = stack]_vars
    /\ [][done' # done => (out' = out /\ inFence' = inFence /\ i' = i)]_vars

\* In an open code span a fence line with an info string opened a fence.
C16_Witness ==
    /\ HasTok
    /\ Tok = Token("syntax", "line", <<Backtick, Backtick, Backtick, "a", "\n">>)
    /\ inFence
    /\ stack = <<CODE>>

(***************************************************************************)
(* C17.  Frame of the scanner state: the fence flag changes only in a step *)
(* that yields a fence-line token, and the mark stack changes only in a    *)
(* step that yields an open or close token of an inline delimiter ('**',   *)
(* '*', '_', the backtick); a step that yields a line token, a display     *)
(* token or an HTML tag token leaves the mark stack as it was; and so does *)
(* every step from the one that opens a fence to the one that closes it,   *)
(* so that the stack is the same when the fence closes as when it opened.  *)
(***************************************************************************)
InlineDelimiters == {<<"*", "*">>, <<"*">>, <<"_">>, <<Backtick>>}

IsDelimiterTok(tok) == IsOpenOrClose(tok) /\ tok.value \in InlineDelimiters

IsTagTok(tok) == IsOpenOrClose(tok) /\ tok.value[1] = "<"

C17_Frame ==
    [][/\ inFence' # inFence => (Yields /\ IsFenceLine(NewTok))
       /\ stack' # stack => (Yields /\ IsDelimiterTok(NewTok))
       /\ (Yields /\ (IsLine(NewTok) \/ IsDisplay(NewTok) \/ IsTagTok(NewTok)))
            => stack' = stack
       /\ (inFence \/ inFence') => stack' = stack]_vars

\* A fence opened in an open code span has closed, the stack as it was,
\* after a '<' in it came out as a display token.
C17_Witness ==
    /\ HasTok
    /\ IsFenceLine(Tok)
    /\ ~inFence
    /\ FenceLinesIn(out) = 2
    /\ stack = <<CODE>>
    /\ \E n \in 1..Len(out) : IsDefaultTok(out[n]) /\ out[n].value = <<"<">>

(***************************************************************************)
(* C18.  Shape of the mark stack: in every reachable state the stack holds *)
(* marks only, no two equal kinds are in adjacent positions, and a code    *)
(* span can only be the top element (so there is at most one, and it is    *)
(* never below another mark).                                              *)
(***************************************************************************)
C18_StackShape ==
    /\ \A n \in 1..Len(stack) : stack[n] \in Mark
    /\ \A n \in 1..(Len(stack) - 1) : stack[n] # stack[n + 1]
    /\ \A n \in 1..(Len(stack) - 1) : stack[n] # CODE

\* A stack of four marks, one kind twice apart, the code span on top.
C18_Witness ==
    /\ stack = <<EM, UNDER, EM, CODE>>
    /\ HasTok
    /\ Tok = Token("syntax", "open", <<Backtick>>)

(***************************************************************************)
(* C19.  LIFO pairing of inline marks: counting the open and close tokens  *)
(* of inline delimiters only (not HTML tags), the value of every close     *)
(* token is the value of the most recent open token not yet closed; so in  *)
(* every prefix of the stream there are no more closes than opens, and the *)
(* opens less the closes are the depth of the mark stack, at the end of    *)
(* the stream too: no closer is made up for a mark left open.              *)
(***************************************************************************)
\* The values of the inline open tokens of toks not yet closed, oldest first.
RECURSIVE Unclosed(_)
Unclosed(toks) ==
    IF toks = <<>> THEN <<>>
    ELSE LET before == Unclosed(SubSeq(toks, 1, Len(toks) - 1))
             last == toks[Len(toks)]
         IN  IF ~IsDelimiterTok(last) THEN before
             ELSE IF last.kind = "open" THEN Append(before, last.value)
             ELSE SubSeq(before, 1, Len(before) - 1)

Opens(toks) ==
    Cardinality({n \in 1..Len(toks) : IsDelimiterTok(toks[n]) /\ toks[n].kind = "open"})

Closes(toks) ==
    Cardinality({n \in 1..Len(toks) : IsDelimiterTok(toks[n]) /\ toks[n].kind = "close"})

C19_Pairing ==
    /\ (HasTok /\ IsDelimiterTok(Tok) /\ Tok.kind = "close") =>
            LET before == Unclosed(SubSeq(out, 1, Len(out) - 1))
            IN  /\ Len(before) > 0
                /\ before[Len(before)] = Tok.value
    /\ Closes(out) <= Opens(out)
    /\ Opens(out) - Closes(out) = Len(stack)
    /\ Unclosed(out) = [n \in 1..Len(stack) |-> closeFor(stack[n])]

\* '*__' and the like: the stream has ended with one mark open, after an
\* inner mark was opened and closed.
C19_Witness ==
    /\ done
    /\ stack = <<EM>>
    /\ Len(out) >= 3
    /\ out[1] = Token("syntax", "open", <<"*">>)
    /\ Tok = Token("syntax", "close", <<"_">>)

(***************************************************************************)
(* C20.  Classes of the display tokens: every whitespace display token is  *)
(* a non-empty run of space, tab, CR and LF characters only, and what      *)
(* follows it is the end of the input or a character that is no            *)
(* whitespace, so that no two whitespace display tokens are adjacent; and  *)
(* every default display token begins with a character that is no          *)
(* whitespace.  Inside a fence as outside.                                 *)
(***************************************************************************)
WhitespaceChars == {" ", "\t", "\r", "\n"}

C20_DisplayClasses ==
    HasTok =>
        /\ IsWhitespaceTok(Tok) =>
            /\ Len(Tok.value) >= 1
            /\ \A k \in 1..Len(Tok.value) : Tok.value[k] \in WhitespaceChars
            /\ (i = Len(src) \/ (i < Len(src) /\ src[i + 1] \notin WhitespaceChars))
            /\ Len(out) > 1 => ~IsWhitespaceTok(out[Len(out) - 1])
        /\ IsDefaultTok(Tok) =>
            /\ Len(Tok.value) >= 1
            /\ Tok.value[1] \notin WhitespaceChars
        /\ Tok.type = "display" => (IsWhitespaceTok(Tok) \/ IsDefaultTok(Tok))

\* Inside a fence a space and the newline after it came out as one
\* whitespace token, after a default display token and before the fence
\* line that closes the fence.
C20_Witness ==
    /\ inFence
    /\ Len(out) >= 3
    /\ Tok = Token("display", "whitespace", <<" ", "\n">>)
    /\ IsDefaultTok(out[Len(out) - 1])
    /\ At(src, i) = Backtick

====
